---- MODULE Spec2Model ----
(***************************************************************************)
(* A model of dog.py: one run of the process-tree lister.                  *)
(*                                                                         *)
(* A run is: DisplayManager.__init__ (one display per output column),      *)
(* ProcessTree.__list_processes (one Process per /proc entry),             *)
(* __associate_parent_with_children, __set_depth_of_process,               *)
(* __pickup_seached_processes (only with -S), __mark_excluded_processes,   *)
(* __render_display_elements_for_all_process (pass 1), show_header and one *)
(* __create_one_proc_line per listed process (pass 2).                     *)
(*                                                                         *)
(* Strings are sequences of one-character strings, so that str(), int(),   *)
(* isdecimal(), ljust() and rjust() are computed and not assumed.          *)
(* None is modelled as 0 for a parent reference (no /proc entry is 0), as  *)
(* -1 for an integer attribute that was never assigned (depth) and for an  *)
(* absent depth limit.                                                     *)
(***************************************************************************)
EXTENDS Integers, Sequences, FiniteSets, TLC

VARIABLES
    args,           \* the parsed command line (argparse namespace)
    procfs,         \* /proc: pid -> the fields of stat/status that are used
    pc,             \* where the run is
    display_list,   \* DisplayManager.display_list (the Display objects)
    class_name_map, \* the class attribute UidGidBaseDisplay.name_map
    file_reads,     \* how often /etc/passwd and /etc/group were opened
    proc_keys,      \* insertion order of ProcessTree.proc_map
    proc_map,       \* ProcessTree.proc_map: pid -> Process
    root_proc_list, \* ProcessTree.root_proc_list
    work,           \* the list a running loop iterates over (what is left)
    printed         \* the lines written to stdout

vars == <<args, procfs, pc, display_list, class_name_map, file_reads,
          proc_keys, proc_map, root_proc_list, work, printed>>

\* Number of entries of /proc in the modelled runs.
NumProcs == 3

None == 0
Unset == -1

-----------------------------------------------------------------------------
(* Strings *)

Digits == <<"0", "1", "2", "3", "4", "5", "6", "7", "8", "9">>

DigitChars == {Digits[i] : i \in 1..10}

DigitValue(c) == (CHOOSE i \in 1..10 : Digits[i] = c) - 1

\* str.isdecimal(): non-empty and every character a decimal digit.
IsDecimal(s) == Len(s) > 0 /\ \A i \in 1..Len(s) : s[i] \in DigitChars

RECURSIVE StrToInt(_)
\* int(s) of a decimal string.
StrToInt(s) ==
    IF Len(s) = 0 THEN 0
    ELSE 10 * StrToInt(SubSeq(s, 1, Len(s) - 1)) + DigitValue(s[Len(s)])

RECURSIVE IntToStr(_)
\* str(n) of a non-negative integer.
IntToStr(n) ==
    IF n < 10 THEN <<Digits[n + 1]>>
    ELSE IntToStr(n \div 10) \o <<Digits[(n % 10) + 1]>>

RECURSIVE Spaces(_)
\* ''.join([' ' for i in range(n)])
Spaces(n) == IF n <= 0 THEN <<>> ELSE <<" ">> \o Spaces(n - 1)

\* str.ljust(width) / str.rjust(width): pad with spaces, never cut.
LJust(msg, width) == msg \o Spaces(width - Len(msg))

RJust(msg, width) == Spaces(width - Len(msg)) \o msg

\* s[:n]
Prefix(s, n) == SubSeq(s, 1, IF n < Len(s) THEN n ELSE Len(s))

Max(a, b) == IF a > b THEN a ELSE b

RECURSIVE Flatten(_)
\* The concatenation of a sequence of sequences.
Flatten(ss) == IF Len(ss) = 0 THEN <<>> ELSE Head(ss) \o Flatten(Tail(ss))

Range(s) == {s[i] : i \in 1..Len(s)}

-----------------------------------------------------------------------------
(* Display and its subclasses *)

NO_ALIGN == -1
LEFT == 0
RIGHT == 1

\* /etc/passwd and /etc/group as the pairs get_name_map_pair returns.
PasswdFile == {<< <<"0">>, <<"r", "o", "o", "t">> >>}

GroupFile == {<< <<"0">>, <<"w", "h", "e", "e", "l">> >>}

NoMap == [set |-> FALSE, map |-> {}]

UidColumns == {"ruid", "euid"}

GidColumns == {"rgid"}

\* The columns of DisplayManager.column_def that are modelled.
Columns == {"pid", "name", "cmd", "ruid", "euid", "rgid"}

\* DisplayManager.column_def: the title of a column.
ColumnTitle(column_name) ==
    CASE column_name = "pid" -> <<"P", "I", "D">>
      [] column_name = "name" -> <<"N", "A", "M", "E">>
      [] column_name = "cmd" -> <<"C", "O", "M", "M", "A", "N", "D">>
      [] column_name = "ruid" -> <<"R", "U", "I", "D">>
      [] column_name = "euid" -> <<"E", "U", "I", "D">>
      [] column_name = "rgid" -> <<"R", "G", "I", "D">>

\* DisplayManager.column_def: the alignment the column's Display is built with.
ColumnAlign(column_name) ==
    CASE column_name = "name" -> LEFT
      [] column_name = "cmd" -> NO_ALIGN
      [] OTHER -> RIGHT

\* UidDisplay reads /etc/passwd, GidDisplay reads /etc/group.
DataFile(column_name) ==
    IF column_name \in UidColumns THEN "passwd" ELSE "group"

FileContent(data_file) == IF data_file = "passwd" THEN PasswdFile ELSE GroupFile

\* Attribute lookup self.name_map: the instance attribute when one was
\* assigned, the class attribute otherwise.
LookupNameMap(disp, class_map) ==
    IF disp.name_map.set THEN disp.name_map ELSE class_map

\* UidGidBaseDisplay.__init__: the table is built when self.name_map is None.
NeedsNameMap(disp, class_map) == ~LookupNameMap(disp, class_map).set

\* UidGidBaseDisplay.__create_name_map: `self.name_map = {}` binds an
\* attribute of the instance; the class attribute is left as it was.
CreateNameMap(disp, data_file) ==
    [disp EXCEPT !.name_map = [set |-> TRUE, map |-> FileContent(data_file)]]

\* Display.__init__ (through the subclass constructors).
NewDisplay(column_name) ==
    [column |-> column_name,
     title |-> ColumnTitle(column_name),
     max_length |-> 0,
     align |-> ColumnAlign(column_name),
     name_map |-> NoMap]

\* Display.get_width
get_width(disp) == Max(Len(disp.title), disp.max_length)

\* Display.__align
Align(disp, msg) ==
    IF disp.align = NO_ALIGN THEN msg
    ELSE IF disp.align = LEFT THEN LJust(msg, get_width(disp))
    ELSE RJust(msg, get_width(disp))

\* Display.renderHeader
renderHeader(disp) == Align(disp, disp.title)

\* Display.renderValue
renderValue(disp, disp_val) == Align(disp, disp_val)

\* Display.create that does not record the length of the cell.
DisplayCreate_NoGrow(disp, disp_val) == disp

\* Display.create: the column's max_length after a cell disp_val was created.
DisplayCreate(disp, disp_val) ==
    IF Len(disp_val) > disp.max_length
    THEN [disp EXCEPT !.max_length = Len(disp_val)]
    ELSE disp

\* dict.get(val, val) on a name map.
NameMapGet(map, val) ==
    IF \E e \in map : e[1] = val
    THEN (CHOOSE e \in map : e[1] = val)[2]
    ELSE val

\* CommandDisplay.__trim_if_necessary
TrimIfNecessary(s, max_width) == IF max_width = 0 THEN s ELSE Prefix(s, max_width)

\* The string a column shows for a process: the value getter of column_def
\* followed by what the create() of the column's class does before it calls
\* Display.create (CommandDisplay.create, UidGidBaseDisplay.create, str()).
CellValue(disp, proc, a, class_map) ==
    CASE disp.column = "pid" -> IntToStr(proc.generic_pid)
      [] disp.column = "name" -> proc.name
      [] disp.column = "cmd" ->
            TrimIfNecessary(Spaces(proc.depth * 2) \o proc.name, a.max_cmd_width)
      [] disp.column \in UidColumns ->
            IF a.show_name_instead_of_id
            THEN NameMapGet(LookupNameMap(disp, class_map).map, proc.uid)
            ELSE proc.uid
      [] disp.column \in GidColumns ->
            IF a.show_name_instead_of_id
            THEN NameMapGet(LookupNameMap(disp, class_map).map, proc.gid)
            ELSE proc.gid

-----------------------------------------------------------------------------
(* Process and the finders *)

\* Process.__init__: the object made from /proc/<pid>/stat and status.
NewProcess(pid, stat) ==
    [pid |-> pid,
     generic_pid |-> pid,
     ppid |-> stat.ppid,
     name |-> stat.name,
     uid |-> stat.uid,
     gid |-> stat.gid,
     excluded |-> FALSE,
     parent |-> None,
     children |-> <<>>,
     depth |-> Unset,
     disp_elem_list |-> <<>>]

\* ProcessFinder.__append_list / __append: the decimal terms become pids.
FinderPids(proc_list) ==
    {StrToInt(t) : t \in {u \in Range(Flatten(proc_list)) : IsDecimal(u)}}

\* ProcessFinder.__append_list / __append: every other term is a name.
FinderNames(proc_list) ==
    {u \in Range(Flatten(proc_list)) : ~IsDecimal(u)}

\* ProcessFinder.match
ProcessFinderMatch(proc_list, proc) ==
    (proc.pid \in FinderPids(proc_list)) \/ (proc.name \in FinderNames(proc_list))

\* SearchedProcFinder.match (inherited)
SearchedMatch(a, proc) == ProcessFinderMatch(a.searched_processes, proc)

\* ExclusionFinder.match without the depth limit clause.
ExclusionMatch_NoDepthLimit(a, proc) ==
    ProcessFinderMatch(a.exclusion_processes, proc)

\* ExclusionFinder.match
ExclusionMatch(a, proc) ==
    \/ ProcessFinderMatch(a.exclusion_processes, proc)
    \/ (a.depth_limit # Unset /\ proc.depth > a.depth_limit)

-----------------------------------------------------------------------------
(* ProcessTree: the walks *)

RECURSIVE AssociateLoop(_, _, _)
\* The loop of __associate_parent_with_children over keys, from the
\* state st = [pm, roots].
AssociateLoop(keys, st, i) ==
    IF i > Len(keys) THEN st
    ELSE LET k == keys[i]
             parent == IF st.pm[k].ppid \in DOMAIN st.pm THEN st.pm[k].ppid ELSE None
             pm1 == [st.pm EXCEPT ![k].parent = parent]
         IN  IF parent = None
             THEN AssociateLoop(keys, [pm |-> pm1, roots |-> Append(st.roots, k)], i + 1)
             ELSE AssociateLoop(keys,
                    [pm |-> [pm1 EXCEPT ![parent].children = Append(@, k)],
                     roots |-> st.roots], i + 1)

RECURSIVE IterateFrom(_, _, _)
RECURSIVE IterateList(_, _, _)
\* iterate(proc) that leaves out an excluded process but still descends into
\* its children.
IterateFrom_SkipNodeOnly(pm, p, force_all) ==
    (IF pm[p].excluded /\ ~force_all THEN <<>> ELSE <<p>>)
        \o IterateList(pm, pm[p].children, force_all)

\* iterate(proc) of __iterate_process_tree: preorder, and nothing of a subtree
\* whose root is excluded unless force_all.
IterateFrom(pm, p, force_all) ==
    IF pm[p].excluded /\ ~force_all THEN <<>>
    ELSE <<p>> \o IterateList(pm, pm[p].children, force_all)

\* iterate over a list of processes, one after the other.
IterateList(pm, ps, force_all) ==
    IF Len(ps) = 0 THEN <<>>
    ELSE IterateFrom(pm, Head(ps), force_all) \o IterateList(pm, Tail(ps), force_all)

\* ProcessTree.__iterate_process_tree
IterateProcessTree(pm, roots, force_all) == IterateList(pm, roots, force_all)

\* Process.ancestors that stops after the parent.
Ancestors_ParentOnly(pm, p) ==
    IF pm[p].parent = None THEN <<>> ELSE <<pm[p].parent>>

RECURSIVE Ancestors(_, _)
\* Process.ancestors: the parent, its parent, ... up to a root.
Ancestors(pm, p) ==
    IF pm[p].parent = None THEN <<>>
    ELSE <<pm[p].parent>> \o Ancestors(pm, pm[p].parent)

\* Process.descendants: the subtree below p in preorder.
Descendants(pm, p) == IterateList(pm, pm[p].children, TRUE)

RECURSIVE SetExcluded(_, _, _)
\* for proc in ps: proc.excluded = v
SetExcluded(pm, ps, v) ==
    IF Len(ps) = 0 THEN pm
    ELSE SetExcluded([pm EXCEPT ![Head(ps)].excluded = v], Tail(ps), v)

RECURSIVE PickupBranch(_, _)
\* pickup_branch of __pickup_seached_processes: stops at the first process
\* that is already picked up.
PickupBranch(pm, ps) ==
    IF Len(ps) = 0 THEN pm
    ELSE IF ~pm[Head(ps)].excluded THEN pm
    ELSE PickupBranch([pm EXCEPT ![Head(ps)].excluded = FALSE], Tail(ps))

\* The turn of the loop of __pickup_seached_processes without the walk over
\* the descendants.
PickupOne_NoDescendants(a, pm, p) ==
    IF ~SearchedMatch(a, pm[p]) THEN pm
    ELSE IF ~pm[p].excluded THEN pm
    ELSE LET pm1 == [pm EXCEPT ![p].excluded = FALSE]
         IN  PickupBranch(pm1, Ancestors(pm1, p))

\* One turn of the loop of __pickup_seached_processes, for the process p.
PickupOne(a, pm, p) ==
    IF ~SearchedMatch(a, pm[p]) THEN pm
    ELSE IF ~pm[p].excluded THEN pm
    ELSE LET pm1 == [pm EXCEPT ![p].excluded = FALSE]
             pm2 == PickupBranch(pm1, Ancestors(pm1, p))
         IN  PickupBranch(pm2, Descendants(pm2, p))

RECURSIVE PickupLoop(_, _, _)
\* The loop of __pickup_seached_processes over the list ps.
PickupLoop(a, pm, ps) ==
    IF Len(ps) = 0 THEN pm
    ELSE PickupLoop(a, PickupOne(a, pm, Head(ps)), Tail(ps))

\* ProcessTree.__pickup_seached_processes
PickupSearched(a, pm, roots) ==
    LET all == IterateProcessTree(pm, roots, TRUE)
        hidden == SetExcluded(pm, all, TRUE)
    IN  PickupLoop(a, hidden, IterateProcessTree(hidden, roots, TRUE))

RECURSIVE MarkLoop(_, _, _)
\* The loop of __mark_excluded_processes over the list ps.
MarkLoop(a, pm, ps) ==
    IF Len(ps) = 0 THEN pm
    ELSE MarkLoop(a, [pm EXCEPT ![Head(ps)].excluded = ExclusionMatch(a, pm[Head(ps)])],
                  Tail(ps))

\* __mark_excluded_processes that walks the whole tree, the excluded
\* processes included (force_all).
MarkExcluded_ForceAll(a, pm, roots) ==
    MarkLoop(a, pm, IterateProcessTree(pm, roots, TRUE))

\* ProcessTree.__mark_excluded_processes
MarkExcluded(a, pm, roots) == MarkLoop(a, pm, IterateProcessTree(pm, roots, FALSE))

RECURSIVE DepthLoop(_, _)
\* The loop of __set_depth_of_process over the list ps.
DepthLoop(pm, ps) ==
    IF Len(ps) = 0 THEN pm
    ELSE LET p == Head(ps)
             d == IF pm[p].parent = None THEN 0 ELSE pm[pm[p].parent].depth + 1
         IN  DepthLoop([pm EXCEPT ![p].depth = d], Tail(ps))

\* ProcessTree.__set_depth_of_process
SetDepth(pm, roots) == DepthLoop(pm, IterateProcessTree(pm, roots, FALSE))

-----------------------------------------------------------------------------
(* The inputs of a run *)

NameSh == <<"s", "h">>

NamePython == <<"p", "y", "t", "h", "o", "n">>

ProcNames == {NameSh, NamePython}

\* os.listdir('/proc'): the numeric entries.
Entries == [i \in 1..NumProcs |-> i]

\* What /proc/<pid>/stat and status can hold: the parent pid is any pid of
\* the listing (the process itself included) or 0, a pid that is not listed.
StatSet ==
    [ppid : 0..NumProcs, name : ProcNames, uid : {<<"0">>}, gid : {<<"0">>}]

\* -S PROC... (repeatable): a list of lists of terms.
SearchChoices ==
    {<<>>, << <<NameSh>> >>, << <<NamePython>>, <<IntToStr(2)>> >>}

\* -E PROC... (repeatable): a list of lists of terms; None is the empty list.
ExclusionChoices ==
    {<<>>, << <<NamePython>> >>, << <<IntToStr(2), NameSh>> >>}

DepthChoices == {Unset, 0, 1}

\* The runs that vary the forest and the three filters.
SelectionArgs ==
    [output : {<<"pid", "cmd">>},
     searched_processes : SearchChoices,
     exclusion_processes : ExclusionChoices,
     depth_limit : DepthChoices,
     show_name_instead_of_id : {FALSE},
     max_cmd_width : {0}]

-----------------------------------------------------------------------------
(* The run *)

\* Any /proc: every parent pid is free.
SelectionProcfs == [1..NumProcs -> StatSet]

\* The runs that vary the columns: one column or two different ones in any
\* order, the names instead of the ids or not, the command cut or not, and
\* with or without a search.
RenderArgs ==
    [output : {<<c>> : c \in Columns}
                 \cup {o \in {<<c, d>> : c \in Columns, d \in Columns} : o[1] # o[2]},
     searched_processes : {<<>>, << <<NameSh>> >>},
     exclusion_processes : {<<>>},
     depth_limit : {Unset},
     show_name_instead_of_id : BOOLEAN,
     max_cmd_width : {0, 5}]

\* The /proc of those runs: a parent is an earlier entry or not listed.
RenderProcfs == {f \in [1..NumProcs -> StatSet] : \A p \in 1..NumProcs : f[p].ppid < p}

\* The state when ProcessTree(args) is called.
InitWith(argsSet, procfsSet) ==
    /\ args \in argsSet
    /\ procfs \in procfsSet
    /\ pc = "dispmgr"
    /\ display_list = <<>>
    /\ class_name_map = NoMap
    /\ file_reads = [passwd |-> 0, group |-> 0]
    /\ proc_keys = <<>>
    /\ proc_map = <<>>
    /\ root_proc_list = <<>>
    /\ work = args.output
    /\ printed = <<>>

Init == InitWith(SelectionArgs, SelectionProcfs)

InitRender == InitWith(RenderArgs, RenderProcfs)

\* One turn of the loop of DisplayManager.__init__: the Display of the next
\* column of args.output is built by its generator.
CreateDisplay ==
    /\ pc = "dispmgr"
    /\ work # <<>>
    /\ LET column_name == Head(work)
           disp == NewDisplay(column_name)
           is_id == column_name \in UidColumns \cup GidColumns
           build == is_id /\ NeedsNameMap(disp, class_name_map)
       IN  /\ display_list' =
                Append(display_list,
                       IF build THEN CreateNameMap(disp, DataFile(column_name)) ELSE disp)
           /\ file_reads' =
                IF build
                THEN [file_reads EXCEPT ![DataFile(column_name)] = @ + 1]
                ELSE file_reads
    /\ IF Tail(work) = <<>>
       THEN pc' = "list" /\ work' = Entries
       ELSE pc' = pc /\ work' = Tail(work)
    /\ UNCHANGED <<args, procfs, class_name_map, proc_keys, proc_map,
                   root_proc_list, printed>>

\* One turn of the loop of ProcessTree.__init__ over __list_processes: the
\* stat and status files of the next entry are read and the Process is put
\* into proc_map.
ReadProcess ==
    /\ pc = "list"
    /\ work # <<>>
    /\ LET pid == Head(work)
       IN  /\ proc_map' = proc_map @@ (pid :> NewProcess(pid, procfs[pid]))
           /\ proc_keys' = Append(proc_keys, pid)
    /\ IF Tail(work) = <<>>
       THEN pc' = "assoc" /\ work' = <<>>
       ELSE pc' = pc /\ work' = Tail(work)
    /\ UNCHANGED <<args, procfs, display_list, class_name_map, file_reads,
                   root_proc_list, printed>>

\* The same turn when the process of the entry has exited since the listing:
\* open() in Process.__read_stat raises, nothing between there and the top
\* of the program catches it, and the run ends with the traceback.
ReadProcessFails ==
    /\ pc = "list"
    /\ work # <<>>
    /\ pc' = "aborted"
    /\ UNCHANGED <<args, procfs, display_list, class_name_map, file_reads,
                   proc_keys, proc_map, root_proc_list, work, printed>>

\* ProcessTree.__associate_parent_with_children
AssociateParentWithChildren ==
    /\ pc = "assoc"
    /\ LET st == AssociateLoop(proc_keys, [pm |-> proc_map, roots |-> root_proc_list], 1)
       IN  /\ proc_map' = st.pm
           /\ root_proc_list' = st.roots
    /\ pc' = "depth"
    /\ UNCHANGED <<args, procfs, display_list, class_name_map, file_reads,
                   proc_keys, work, printed>>

\* ProcessTree.__set_depth_of_process
SetDepthOfProcess ==
    /\ pc = "depth"
    /\ proc_map' = SetDepth(proc_map, root_proc_list)
    /\ pc' = "select"
    /\ UNCHANGED <<args, procfs, display_list, class_name_map, file_reads,
                   proc_keys, root_proc_list, work, printed>>

\* ProcessTree.__pickup_seached_processes, called when -S was given.
PickupSearchedProcesses ==
    /\ pc = "select"
    /\ Len(args.searched_processes) > 0
    /\ proc_map' = PickupSearched(args, proc_map, root_proc_list)
    /\ pc' = "mark"
    /\ UNCHANGED <<args, procfs, display_list, class_name_map, file_reads,
                   proc_keys, root_proc_list, work, printed>>

\* ProcessTree.__mark_excluded_processes; the loop of
\* __render_display_elements_for_all_process then starts over the list that
\* __iterate_process_tree returns.
MarkExcludedProcesses ==
    /\ \/ pc = "mark"
       \/ pc = "select" /\ Len(args.searched_processes) = 0
    /\ proc_map' = MarkExcluded(args, proc_map, root_proc_list)
    /\ pc' = "render"
    /\ work' = IterateProcessTree(proc_map', root_proc_list, FALSE)
    /\ UNCHANGED <<args, procfs, display_list, class_name_map, file_reads,
                   proc_keys, root_proc_list, printed>>

\* One turn of the loop of __render_display_elements_for_all_process (pass 1):
\* a cell of every column is created for the process and kept on it.
RenderDisplayElements ==
    /\ pc = "render"
    /\ work # <<>>
    /\ LET p == Head(work)
           cells == [i \in 1..Len(display_list) |->
                        CellValue(display_list[i], proc_map[p], args, class_name_map)]
       IN  /\ proc_map' = [proc_map EXCEPT ![p].disp_elem_list = cells]
           /\ display_list' = [i \in 1..Len(display_list) |->
                                  DisplayCreate(display_list[i], cells[i])]
    /\ work' = Tail(work)
    /\ UNCHANGED <<args, procfs, pc, class_name_map, file_reads, proc_keys,
                   root_proc_list, printed>>

\* ProcessTree.show_header, the first thing show_tree does; the loop of
\* show_tree then starts over the list that __iterate_process_tree returns.
ShowHeader ==
    /\ pc = "render"
    /\ work = <<>>
    /\ printed' = Append(printed,
                    [pid |-> None,
                     cells |-> [i \in 1..Len(display_list) |->
                                   renderHeader(display_list[i])]])
    /\ pc' = "rows"
    /\ work' = IterateProcessTree(proc_map, root_proc_list, FALSE)
    /\ UNCHANGED <<args, procfs, display_list, class_name_map, file_reads,
                   proc_keys, proc_map, root_proc_list>>

\* ProcessTree.__create_one_proc_line for the next process of show_tree.
CreateOneProcLine ==
    /\ pc = "rows"
    /\ work # <<>>
    /\ LET p == Head(work)
       IN  printed' = Append(printed,
                        [pid |-> p,
                         cells |-> [i \in 1..Len(display_list) |->
                                       renderValue(display_list[i],
                                                   proc_map[p].disp_elem_list[i])]])
    /\ work' = Tail(work)
    /\ UNCHANGED <<args, procfs, pc, display_list, class_name_map, file_reads,
                   proc_keys, proc_map, root_proc_list>>

\* show_tree returns and the program ends.
Exit ==
    /\ pc = "rows"
    /\ work = <<>>
    /\ pc' = "done"
    /\ UNCHANGED <<args, procfs, display_list, class_name_map, file_reads,
                   proc_keys, proc_map, root_proc_list, work, printed>>

Next ==
    \/ CreateDisplay
    \/ ReadProcess
    \/ ReadProcessFails
    \/ AssociateParentWithChildren
    \/ SetDepthOfProcess
    \/ PickupSearchedProcesses
    \/ MarkExcludedProcesses
    \/ RenderDisplayElements
    \/ ShowHeader
    \/ CreateOneProcLine
    \/ Exit

Spec == Init /\ [][Next]_vars

SpecRender == InitRender /\ [][Next]_vars

-----------------------------------------------------------------------------
(* What the properties speak of *)

\* The nodes of the forest: what hangs below root_proc_list.
ForestNodes == Range(IterateProcessTree(proc_map, root_proc_list, TRUE))

RECURSIVE ParentChain(_, _)
\* The records met by following parent references from p, at most k times.
ParentChain(p, k) ==
    IF k = 0 \/ proc_map[p].parent = None THEN {}
    ELSE {proc_map[p].parent} \cup ParentChain(proc_map[p].parent, k - 1)

AncestorSet(p) == ParentChain(p, Cardinality(DOMAIN proc_map))

DescendantSet(p) == {q \in DOMAIN proc_map : p \in AncestorSet(q)}

Visible(p) == ~proc_map[p].excluded

\* The nodes of the forest that match a search term.
Matches == {p \in ForestNodes : SearchedMatch(args, proc_map[p])}

\* The matches, their ancestors and their descendants.
Selected ==
    Matches \cup UNION {AncestorSet(m) : m \in Matches}
            \cup UNION {DescendantSet(m) : m \in Matches}

\* The processes that have a line in the output.
PrintedPids == {printed[i].pid : i \in 1..Len(printed)} \ {None}

Associated == pc \in {"depth", "select", "mark", "render", "rows", "done"}

DepthSet == pc \in {"select", "mark", "render", "rows", "done"}

\* __pickup_seached_processes (when called) and __mark_excluded_processes
\* have both returned.
SelectionDone == pc \in {"render", "rows", "done"}

WithSearch == Len(args.searched_processes) > 0

NoExclusion == args.exclusion_processes = <<>> /\ args.depth_limit = Unset

\* The pid or the name of p is an exclusion term.
IsExclusionTerm(p) ==
    \/ p \in FinderPids(args.exclusion_processes)
    \/ proc_map[p].name \in FinderNames(args.exclusion_processes)

BeyondDepthLimit(p) ==
    args.depth_limit # Unset /\ proc_map[p].depth > args.depth_limit

-----------------------------------------------------------------------------
(* Selection *)

\* C1 as stated: with search terms, whatever the exclusion terms and the
\* depth limit, once the selection is done every node that matches a search
\* term is visible, and so is every ancestor and every descendant of it.
C1_SearchedAlwaysVisible ==
    (SelectionDone /\ WithSearch) =>
        \A n \in Selected : Visible(n)

\* C1 (amended): with search terms, once the selection is done every node
\* that matches a search term, and every ancestor and every descendant of
\* such a node, is visible unless ExclusionFinder.match matches that node
\* itself (its pid or its name is an exclusion term, or its depth is beyond
\* the depth limit).
C1_SearchedVisibleUnlessExcluded ==
    (SelectionDone /\ WithSearch) =>
        \A n \in Selected :
            ~(IsExclusionTerm(n) \/ BeyondDepthLimit(n)) => Visible(n)

\* A search with an exclusion in force: a match that the exclusion hides,
\* and a descendant of that match, two levels down, that it leaves visible.
C1_Witness ==
    /\ SelectionDone /\ WithSearch
    /\ \E m \in Matches :
          /\ IsExclusionTerm(m) /\ ~Visible(m)
          /\ \E n \in DescendantSet(m) :
                /\ Visible(n)
                /\ proc_map[n].depth = 2

C3_DefaultPolicy ==
    (SelectionDone /\ ~WithSearch) =>
        \A n \in ForestNodes :
            Visible(n) <=>
                /\ args.depth_limit = Unset \/ proc_map[n].depth <= args.depth_limit
                /\ n \notin FinderPids(args.exclusion_processes)
                /\ proc_map[n].name \notin FinderNames(args.exclusion_processes)

\* Without search terms: a visible node below a hidden parent, and a node
\* hidden by the depth limit alone.
C3_Witness ==
    /\ SelectionDone /\ ~WithSearch
    /\ \E n \in ForestNodes :
          /\ Visible(n)
          /\ proc_map[n].parent # None
          /\ ~Visible(proc_map[n].parent)
    /\ \E n \in ForestNodes : ~Visible(n) /\ ~IsExclusionTerm(n)

\* C4: when the run ends, a node of the forest has a line in the output if
\* and only if neither it nor any of its ancestors is hidden; and a process
\* whose pid or name is an exclusion term has no line, nor has any of its
\* descendants, with or without search terms.
C4_PrintedIffPathVisible ==
    pc = "done" =>
        /\ \A n \in ForestNodes :
              n \in PrintedPids <=>
                  (Visible(n) /\ \A a \in AncestorSet(n) : Visible(a))
        /\ \A n \in DOMAIN proc_map :
              IsExclusionTerm(n) =>
                  /\ n \notin PrintedPids
                  /\ DescendantSet(n) \cap PrintedPids = {}

\* A finished run with search terms in which a visible node is not printed
\* because an ancestor matches an exclusion term, next to a printed node.
C4_Witness ==
    /\ pc = "done" /\ WithSearch
    /\ PrintedPids # {}
    /\ \E n \in ForestNodes :
          /\ Visible(n)
          /\ n \notin PrintedPids
          /\ \E a \in AncestorSet(n) : IsExclusionTerm(a)

-----------------------------------------------------------------------------
(* Listing and forest *)

\* C5: a process that has exited between the listing and the read of its
\* record is left out and the run goes on to its end: it is never aborted.
C5_VanishedProcessIsSkipped == pc # "aborted"

\* C6: once __set_depth_of_process has returned, every record of proc_map has
\* a depth: 0 without a parent, the depth of its parent plus one otherwise.
C6_DepthOfEveryRecord ==
    DepthSet =>
        \A p \in DOMAIN proc_map :
            /\ proc_map[p].depth # Unset
            /\ proc_map[p].depth =
                  IF proc_map[p].parent = None THEN 0
                  ELSE proc_map[proc_map[p].parent].depth + 1

\* C7: whatever the parent pids, what __associate_parent_with_children builds
\* is a forest: no record is its own ancestor, and every record is in
\* root_proc_list or has an ancestor there.
C7_ParentRelationIsForest ==
    Associated =>
        \A p \in DOMAIN proc_map :
            /\ p \notin AncestorSet(p)
            /\ ({p} \cup AncestorSet(p)) \cap Range(root_proc_list) # {}

-----------------------------------------------------------------------------
(* Rendering *)

RECURSIVE TotalLen(_, _)
\* The length of the first k cells joined by a separator of one character,
\* that separator after the k-th included: the offset behind the k-th
\* separator of the line.
TotalLen(cells, k) ==
    IF k = 0 THEN 0 ELSE TotalLen(cells, k - 1) + Len(cells[k]) + 1

\* The offsets of the separators of a line: sep.join(cells).
SeparatorOffsets(cells) == [k \in 1..(Len(cells) - 1) |-> TotalLen(cells, k)]

\* C8: every printed line, the header and each row, has its separators at
\* the same offsets.
C8_SameColumnBoundaries ==
    \A i \in 1..Len(printed), j \in 1..Len(printed) :
        SeparatorOffsets(printed[i].cells) = SeparatorOffsets(printed[j].cells)

Widths == [i \in 1..Len(display_list) |-> get_width(display_list[i])]

HeaderEmitted == pc \in {"rows", "done"}

\* The processes show_tree has printed or is about to print.
RowsOfPass2 == PrintedPids \cup Range(work)

\* From the header on: every column is as wide as its title and as every
\* cell of every row of pass 2, every printed row is made of the cells kept
\* on its process, and those are the values of the columns for the process.
C9_WidthsCoverRows ==
    HeaderEmitted =>
        /\ \A i \in 1..Len(display_list) :
              /\ Widths[i] >= Len(display_list[i].title)
              /\ \A p \in RowsOfPass2 :
                    /\ Len(proc_map[p].disp_elem_list) = Len(display_list)
                    /\ Widths[i] >= Len(proc_map[p].disp_elem_list[i])
                    /\ proc_map[p].disp_elem_list[i] =
                          CellValue(display_list[i], proc_map[p], args, class_name_map)
        /\ \A k \in 2..Len(printed) : \A i \in 1..Len(display_list) :
              printed[k].cells[i] =
                  renderValue(display_list[i],
                              proc_map[printed[k].pid].disp_elem_list[i])

\* C9: two passes. When the header is emitted every column is already as
\* wide as its title and as every cell of the rows that follow; no width
\* changes from then on; every row is printed from the cells kept in pass 1.
C9_TwoPassOrdering ==
    /\ []C9_WidthsCoverRows
    /\ [][HeaderEmitted => Widths' = Widths]_vars

\* A finished run with at least two rows in which a column is wider than its
\* title because of a cell of a printed row.
C9_Witness ==
    /\ pc = "done"
    /\ Len(printed) >= 3
    /\ \E i \in 1..Len(display_list) :
          /\ Widths[i] > Len(display_list[i].title)
          /\ display_list[i].align # NO_ALIGN
          /\ \E k \in 2..Len(printed) : Len(printed[k].cells[i]) = Widths[i]

\* C10: /etc/passwd is read at most once in a run, and so is /etc/group.
C10_TablesBuiltOnce ==
    /\ file_reads["passwd"] <= 1
    /\ file_reads["group"] <= 1


-----------------------------------------------------------------------------
(* Search and exclusion together *)

\* With search terms, once both passes are done: a node of the forest is
\* visible if and only if the search pass selected it and
\* ExclusionFinder.match does not match it.
C11_VisibleIffSelectedAndNotExcluded ==
    (SelectionDone /\ WithSearch) =>
        \A n \in ForestNodes :
            Visible(n) <=>
                /\ n \in Selected
                /\ ~(IsExclusionTerm(n) \/ BeyondDepthLimit(n))

\* The step of __mark_excluded_processes after the search pass: no node of
\* the forest that the search pass left hidden is visible after it.
C11_MarkOnlyHides ==
    (pc = "mark" /\ pc' = "render") =>
        \A n \in ForestNodes :
            ~proc_map'[n].excluded => ~proc_map[n].excluded

\* C11: with search terms, the exclusion pass that follows the search pass
\* only hides nodes, it makes no node visible that the search pass left
\* hidden; after both passes a node is visible if and only if it was selected
\* by the search pass (a match, an ancestor or a descendant of a match) and
\* ExclusionFinder.match (exclusion pid or name, or depth beyond the depth
\* limit) does not match it.
C11_ExclusionAfterSearchOnlyHides ==
    /\ []C11_VisibleIffSelectedAndNotExcluded
    /\ [][C11_MarkOnlyHides]_vars

\* Both passes done with search terms: a node the search pass did not select
\* that no exclusion matches and that stays hidden, a selected node that the
\* exclusion has hidden again, and a selected node that is visible.
C11_Witness ==
    /\ SelectionDone /\ WithSearch
    /\ \E n \in ForestNodes \ Selected :
          ~(IsExclusionTerm(n) \/ BeyondDepthLimit(n)) /\ ~Visible(n)
    /\ \E n \in Selected : (IsExclusionTerm(n) \/ BeyondDepthLimit(n)) /\ ~Visible(n)
    /\ \E n \in Selected : Visible(n)

====
